---- MODULE Spec2Model ----
(***************************************************************************)
(* what-note: an ear-training quiz (src/src/main.rs).  The program parses  *)
(* three numbers, derives a note range around middle C, and for each of    *)
(* test_count trials draws a note, plays it and reads guess lines until a  *)
(* guess is classified Perfect / WrongOctave or the attempts run out; it   *)
(* then prints a score and a letter grade.                                 *)
(*                                                                         *)
(* Text is modelled as a sequence of one-character strings, so that the    *)
(* regular expression, the newline stripping and the slicing of the line   *)
(* are computed character by character as the code computes them.          *)
(***************************************************************************)
EXTENDS Integers, Sequences, FiniteSets, TLC

VARIABLES
    invocation,     \* the parsed command line: [octaves, test_count, attempt_limit]
    play_ok,        \* environment: whether the "play" utility can be spawned
    pc,             \* "start" | "trial" (head of the for loop) | "guess" (head of
                    \* guess_note's loop) | "done" | "exit" | "panic"; "names" and
                    \* "named" around a call of the naming functions on their own
    octaves,        \* main: octaves (clamped)
    min_note,       \* main: min_note
    max_note,       \* main: max_note
    perfect_count,  \* main: perfect_count
    right_count,    \* main: right_count
    trial,          \* number of iterations of the trial loop begun so far
    note,           \* main: note of the current (or last) trial
    rem_guesses,    \* main: rem_guesses of the current attempt
    classified,     \* number of guess_note calls that returned in this trial
    buf,            \* guess_note: buf after the newline stripping
    read,           \* result of the last read_line: "none" | "line" | "eof" | "err"
    guess,          \* what guess_note returned in the last step, or "None"
    out,            \* what the last step printed or played, in order
    score,          \* main: score
    grade,          \* the letter printed with the score
    exit_code       \* the process's exit status, -1 while it runs

vars == <<invocation, play_ok, pc, octaves, min_note, max_note, perfect_count,
          right_count, trial, note, rem_guesses, classified, buf, read, guess,
          out, score, grade, exit_code>>

-----------------------------------------------------------------------------
(* Bounds of the model *)

MaxOctavesArg == 6
MaxTestCount == 2
MaxAttemptLimit == 3

-----------------------------------------------------------------------------
(* Constants of the program *)

NOTE_NAMES == << <<"C">>, <<"C","#">>, <<"D">>, <<"D","#">>, <<"E">>, <<"F">>,
                 <<"F","#">>, <<"G">>, <<"G","#">>, <<"A">>, <<"A","#">>, <<"B">> >>
NOTES_PER_OCTAVE == 12
MIDDLE_C == 60

\* The exit status of a Rust process that panicked.
PANIC_STATUS == 101

-----------------------------------------------------------------------------
(* Formatting *)

DigitChars == <<"0","1","2","3","4","5","6","7","8","9">>

\* format!("{}", n) of an unsigned number
RECURSIVE Decimal(_)
Decimal(n) ==
    IF n < 10 THEN <<DigitChars[n + 1]>>
    ELSE Decimal(n \div 10) \o <<DigitChars[(n % 10) + 1]>>

\* a plausible slip: the octave without the - 1
full_note_name_no_offset(n) ==
    LET octave == n \div NOTES_PER_OCTAVE
        pitch  == n % NOTES_PER_OCTAVE
    IN  NOTE_NAMES[pitch + 1] \o Decimal(octave)

\* full_note_name is only called with note >= 36 by main; for note < 12 the
\* u32 subtraction underflows: see FullNoteNameOutcomes.
full_note_name(n) ==
    LET octave == n \div NOTES_PER_OCTAVE - 1
        pitch  == n % NOTES_PER_OCTAVE
    IN  NOTE_NAMES[pitch + 1] \o Decimal(octave)

note_name(n) ==
    LET pitch == n % NOTES_PER_OCTAVE
    IN  NOTE_NAMES[pitch + 1]

\* format!("{}", u32::MAX)
U32MaxText == <<"4","2","9","4","9","6","7","2","9","5">>

\* full_note_name(n) for every u32 n: for n < 12 the subtraction 0 - 1 panics
\* in a build with overflow checks and wraps to u32::MAX in one without
FullNoteNameOutcomes(n) ==
    IF n \div NOTES_PER_OCTAVE >= 1
    THEN {[panics |-> FALSE, name |-> full_note_name(n)]}
    ELSE {[panics |-> TRUE, name |-> <<>>],
          [panics |-> FALSE, name |-> NOTE_NAMES[(n % NOTES_PER_OCTAVE) + 1] \o U32MaxText]}

-----------------------------------------------------------------------------
(* Guess collection *)

\* a plausible slip: a sharp allowed after every letter, ^([A-G]#?)?[2-6]$
IsMatchAnySharp(s) ==
    LET n == Len(s) IN
    /\ n >= 1
    /\ s[n] \in {"2","3","4","5","6"}
    /\ \/ n = 1
       \/ n = 2 /\ s[1] \in {"A","B","C","D","E","F","G"}
       \/ n = 3 /\ s[1] \in {"A","B","C","D","E","F","G"} /\ s[2] = "#"

\* VALID_NOTE_PATTERN: ^([ACDFG]#?|[BE])?[2-6]$
IsMatch(s) ==
    LET n == Len(s) IN
    /\ n >= 1
    /\ s[n] \in {"2","3","4","5","6"}
    /\ \/ n = 1
       \/ n = 2 /\ s[1] \in {"A","C","D","F","G","B","E"}
       \/ n = 3 /\ s[1] \in {"A","C","D","F","G"} /\ s[2] = "#"

\* while buf.ends_with("\n") { buf.pop(); }
RECURSIVE StripNewlines(_)
StripNewlines(s) ==
    IF Len(s) > 0 /\ s[Len(s)] = "\n"
    THEN StripNewlines(SubSeq(s, 1, Len(s) - 1))
    ELSE s

\* a plausible slip: the pitch class compared before the full name
ClassifyPitchFirst(b, nn, fnn) ==
    IF SubSeq(b, 1, Len(b) - 1) = nn THEN "WrongOctave"
    ELSE IF b = fnn THEN "Perfect"
    ELSE "Wrong"

\* a plausible slip: no half-credit arm
ClassifyNoHalfCredit(b, nn, fnn) ==
    IF b = fnn THEN "Perfect"
    ELSE "Wrong"

\* the classification of a line that matched the pattern
Classify(b, nn, fnn) ==
    IF b = fnn THEN "Perfect"
    ELSE IF SubSeq(b, 1, Len(b) - 1) = nn THEN "WrongOctave"
    ELSE "Wrong"

\* The lines the user may type (without the line terminator).
InputTexts ==
    { <<"?">>, <<>>, <<"4">>, <<"C","4">>, <<"C","#","3">>, <<"C","#","4">>,
      <<"C","#","5">>, <<"D","3">>, <<"H","4">> }

\* What read_line can leave in buf on Ok: a terminated line, a last line that
\* ends with the input instead of a newline, or nothing at all (end of input).
RawInputs ==
    { t \o <<"\n">> : t \in InputTexts } \cup (InputTexts \ {<<>>}) \cup {<<>>}

\* RawInputs by the branch of guess_note that handles them
MatchingInputs == { r \in RawInputs : IsMatch(StripNewlines(r)) }
ReplayInputs == { r \in RawInputs \ MatchingInputs : StripNewlines(r) = <<"?">> }
OtherInputs == RawInputs \ (MatchingInputs \cup ReplayInputs)

-----------------------------------------------------------------------------
(* Range *)

Min2(a, b) == IF a < b THEN a ELSE b
Max2(a, b) == IF a > b THEN a ELSE b

ClampOctaves(o) == Max2(Min2(o, 5), 1)

\* plausible slips: the rounding of the two halves exchanged
MinNoteRoundedUp(o) == MIDDLE_C - ((o + 1) \div 2) * NOTES_PER_OCTAVE
MaxNoteRoundedDown(o) == MIDDLE_C + (o \div 2) * NOTES_PER_OCTAVE

MinNote(o) == MIDDLE_C - (o \div 2) * NOTES_PER_OCTAVE
MaxNote(o) == MIDDLE_C + ((o + 1) \div 2) * NOTES_PER_OCTAVE

-----------------------------------------------------------------------------
(* Output lines *)

Separator == <<"---">>
Prompt == <<"Your guess?">>
Hint == <<"Please enter a note in MIDI notation">>
Played(n) == <<"play", n>>
TryAgain(r) == <<"Try again (N guesses left)", r>>
LastGuess == <<"Try again (last guess)">>
OutOfGuesses == <<"Out of guesses.">>
TheNoteWas(name) == <<"The note was", name>>
RightNoteWrongOctave == <<"You got the note right, but the octave wrong.">>
TheAnswerWas(name) == <<"The correct answer was", name>>
Correct == <<"Correct!">>

-----------------------------------------------------------------------------
(* The program *)

Invocations ==
    [octaves : 0..MaxOctavesArg, test_count : 0..MaxTestCount,
     attempt_limit : 0..MaxAttemptLimit]

Init ==
    /\ invocation \in Invocations
    /\ play_ok \in BOOLEAN
    /\ pc = "start"
    /\ octaves = 0 /\ min_note = 0 /\ max_note = 0
    /\ perfect_count = 0 /\ right_count = 0
    /\ trial = 0 /\ note = 0 /\ rem_guesses = 0 /\ classified = 0
    /\ buf = <<>> /\ read = "none" /\ guess = "None"
    /\ out = <<>>
    /\ score = 0 /\ grade = "" /\ exit_code = -1

\* main, up to the trial loop
Setup ==
    /\ pc = "start"
    /\ octaves' = ClampOctaves(invocation.octaves)
    /\ min_note' = MinNote(octaves')
    /\ max_note' = MaxNote(octaves')
    /\ out' = << <<"Lowest note we'll play", full_note_name(min_note')>>,
                 <<"Highest note we'll play", full_note_name(max_note')>> >>
    /\ pc' = "trial"
    /\ UNCHANGED <<invocation, play_ok, perfect_count, right_count, trial, note,
                   rem_guesses, classified, buf, read, guess, score, grade,
                   exit_code>>

Panic ==
    /\ pc' = "panic"
    /\ exit_code' = PANIC_STATUS

\* one iteration of the trial loop begins: draw, play, enter the attempt loop
StartTrial ==
    /\ pc = "trial"
    /\ trial < invocation.test_count
    /\ \E n \in min_note..max_note :
        /\ note' = n
        /\ trial' = trial + 1
        /\ classified' = 0
        /\ guess' = "None"
        /\ IF ~play_ok
           THEN /\ Panic
                /\ out' = <<Separator>>
                /\ UNCHANGED rem_guesses
           ELSE /\ out' = <<Separator, Played(n)>>
                /\ exit_code' = exit_code
                /\ IF invocation.attempt_limit = 0
                   THEN pc' = "trial" /\ UNCHANGED rem_guesses
                   ELSE pc' = "guess" /\ rem_guesses' = invocation.attempt_limit - 1
    /\ UNCHANGED <<invocation, play_ok, octaves, min_note, max_note,
                   perfect_count, right_count, buf, read, score, grade>>

\* guess_note: read_line returned Err
ReadError ==
    /\ pc = "guess"
    /\ out' = <<Prompt>>
    /\ buf' = <<>>
    /\ read' = "err"
    /\ guess' = "None"
    /\ pc' = "exit"
    /\ exit_code' = 0
    /\ UNCHANGED <<invocation, play_ok, octaves, min_note, max_note,
                   perfect_count, right_count, trial, note, rem_guesses,
                   classified, score, grade>>

\* a plausible slip: the "guesses left" line also for the last guess
WrongFeedbackOffByOne(rem, name) ==
    IF rem >= 1 THEN <<TryAgain(rem)>>
    ELSE <<OutOfGuesses, TheNoteWas(name)>>

\* main: what the Wrong arm prints
WrongFeedback(rem, name) ==
    IF rem > 1 THEN <<TryAgain(rem)>>
    ELSE IF rem > 0 THEN <<LastGuess>>
    ELSE <<OutOfGuesses, TheNoteWas(name)>>

\* a plausible slip: no break in the WrongOctave arm
AfterGuessNoBreak(g) ==
    /\ guess' = g
    /\ classified' = classified + 1
    /\ exit_code' = exit_code
    /\ CASE g = "Wrong" ->
              /\ out' = <<Prompt>> \o WrongFeedback(rem_guesses, full_note_name(note))
              /\ UNCHANGED <<perfect_count, right_count>>
              /\ IF rem_guesses > 0
                 THEN pc' = "guess" /\ rem_guesses' = rem_guesses - 1
                 ELSE pc' = "trial" /\ UNCHANGED rem_guesses
         [] g = "WrongOctave" ->
              /\ out' = <<Prompt, RightNoteWrongOctave,
                          TheAnswerWas(full_note_name(note))>>
              /\ right_count' = right_count + 1
              /\ UNCHANGED perfect_count
              /\ IF rem_guesses > 0
                 THEN pc' = "guess" /\ rem_guesses' = rem_guesses - 1
                 ELSE pc' = "trial" /\ UNCHANGED rem_guesses
         [] g = "Perfect" ->
              /\ out' = <<Prompt, Correct>>
              /\ perfect_count' = perfect_count + 1
              /\ pc' = "trial"
              /\ UNCHANGED <<right_count, rem_guesses>>

\* main's match on a returned Guess, and the step of the attempt loop
AfterGuess(g) ==
    /\ guess' = g
    /\ classified' = classified + 1
    /\ exit_code' = exit_code
    /\ CASE g = "Wrong" ->
              /\ out' = <<Prompt>> \o WrongFeedback(rem_guesses, full_note_name(note))
              /\ UNCHANGED <<perfect_count, right_count>>
              /\ IF rem_guesses > 0
                 THEN pc' = "guess" /\ rem_guesses' = rem_guesses - 1
                 ELSE pc' = "trial" /\ UNCHANGED rem_guesses
         [] g = "WrongOctave" ->
              /\ out' = <<Prompt, RightNoteWrongOctave,
                          TheAnswerWas(full_note_name(note))>>
              /\ right_count' = right_count + 1
              /\ pc' = "trial"
              /\ UNCHANGED <<perfect_count, rem_guesses>>
         [] g = "Perfect" ->
              /\ out' = <<Prompt, Correct>>
              /\ perfect_count' = perfect_count + 1
              /\ pc' = "trial"
              /\ UNCHANGED <<right_count, rem_guesses>>

\* guess_note: the line (one of raws, which match the pattern) is classified
GuessClassifiedOn(raws) ==
    /\ pc = "guess"
    /\ \E raw \in raws :
        /\ buf' = StripNewlines(raw)
        /\ read' = IF raw = <<>> THEN "eof" ELSE "line"
        /\ AfterGuess(Classify(buf', note_name(note), full_note_name(note)))
    /\ UNCHANGED <<invocation, play_ok, octaves, min_note, max_note, trial, note,
                   score, grade>>

GuessClassified == GuessClassifiedOn(MatchingInputs)

\* a plausible slip: the "?" arm falls through to the hint
GuessReplayThenHint ==
    /\ pc = "guess"
    /\ \E raw \in ReplayInputs :
        /\ buf' = StripNewlines(raw)
        /\ read' = IF raw = <<>> THEN "eof" ELSE "line"
    /\ guess' = "None"
    /\ out' = <<Prompt, Played(note), Hint>>
    /\ UNCHANGED <<invocation, play_ok, pc, octaves, min_note, max_note,
                   perfect_count, right_count, trial, note, rem_guesses,
                   classified, score, grade, exit_code>>

\* guess_note: the line (one of raws, which are "?") plays the note again
GuessReplayOn(raws) ==
    /\ pc = "guess"
    /\ \E raw \in raws :
        /\ buf' = StripNewlines(raw)
        /\ read' = IF raw = <<>> THEN "eof" ELSE "line"
    /\ guess' = "None"
    /\ IF play_ok
       THEN /\ out' = <<Prompt, Played(note)>>
            /\ UNCHANGED <<pc, exit_code>>
       ELSE /\ out' = <<Prompt>>
            /\ Panic
    /\ UNCHANGED <<invocation, play_ok, octaves, min_note, max_note,
                   perfect_count, right_count, trial, note, rem_guesses,
                   classified, score, grade>>

\* guess_note: the line is "?": play the note again and prompt again
GuessReplay == GuessReplayOn(ReplayInputs)

\* guess_note: the line (one of raws: neither a match nor "?") gets the hint
GuessHintOn(raws) ==
    /\ pc = "guess"
    /\ \E raw \in raws :
        /\ buf' = StripNewlines(raw)
        /\ read' = IF raw = <<>> THEN "eof" ELSE "line"
    /\ guess' = "None"
    /\ out' = <<Prompt, Hint>>
    /\ UNCHANGED <<invocation, play_ok, pc, octaves, min_note, max_note,
                   perfect_count, right_count, trial, note, rem_guesses,
                   classified, score, grade, exit_code>>

\* guess_note: anything else: print the hint and prompt again
GuessHint == GuessHintOn(OtherInputs)

-----------------------------------------------------------------------------
(* Scoring.  perfect_count, right_count and score are u32 like test_count  *)
(* (the division by invocation.test_count fixes their type).  A u32 value  *)
(* is kept as two 16-bit halves wherever it may exceed 2^31 - 1.  A build  *)
(* with overflow checks panics where the arithmetic overflows; a build     *)
(* without them wraps modulo 2^32: both are outcomes.                      *)

Half == 65536

\* x * 100 in u32, for x < 2^31
Mul100(x) ==
    LET lo_full == (x % Half) * 100
        hi_full == (x \div Half) * 100 + lo_full \div Half
    IN  [hi |-> hi_full % Half, lo |-> lo_full % Half, overflow |-> hi_full >= Half]

Bit(w, i) == IF i >= 16 THEN (w.hi \div 2^(i - 16)) % 2 ELSE (w.lo \div 2^i) % 2

\* w / d in u32 by binary long division, for 0 < d <= 2^30
RECURSIVE DivStep(_, _, _, _, _)
DivStep(w, d, i, rem, q) ==
    IF i < 0 THEN q
    ELSE LET r2 == rem * 2 + Bit(w, i) IN
         IF r2 >= d THEN DivStep(w, d, i - 1, r2 - d, q * 2 + 1)
         ELSE DivStep(w, d, i - 1, r2, q * 2)

DivU32(w, d) == DivStep(w, d, 31, 0, 0)

\* a plausible slip: the 1 added after the halving
ScoreOutcomesAddAfter(p, r, t) ==
    LET m == Mul100(p * 2 + r)
        divided == IF t = 0 THEN {[panics |-> TRUE, score |-> 0]}
                   ELSE {[panics |-> FALSE, score |-> DivU32(m, t) \div 2 + 1]}
    IN  IF m.overflow
        THEN {[panics |-> TRUE, score |-> 0]} \cup divided
        ELSE divided

\* ((perfect_count * 2 + right_count) * 100 / test_count + 1) / 2: the set of
\* what the builds can produce (perfect_count * 2 + right_count < 2^31 here)
ScoreOutcomes(p, r, t) ==
    LET m == Mul100(p * 2 + r)
        divided == IF t = 0 THEN {[panics |-> TRUE, score |-> 0]}
                   ELSE {[panics |-> FALSE, score |-> (DivU32(m, t) + 1) \div 2]}
    IN  IF m.overflow
        THEN {[panics |-> TRUE, score |-> 0]} \cup divided
        ELSE divided

\* a plausible slip: > for >= in the guards
GradeStrict(x) ==
    IF x > 100 THEN "S"
    ELSE IF x > 97 THEN "A+"
    ELSE IF x > 94 THEN "A"
    ELSE IF x > 90 THEN "A-"
    ELSE IF x > 87 THEN "B+"
    ELSE IF x > 84 THEN "B"
    ELSE IF x > 80 THEN "B-"
    ELSE IF x > 77 THEN "C+"
    ELSE IF x > 74 THEN "C"
    ELSE IF x > 70 THEN "C-"
    ELSE IF x > 67 THEN "D+"
    ELSE IF x > 64 THEN "D"
    ELSE IF x > 60 THEN "D-"
    ELSE "F"

\* the match on score
Grade(x) ==
    IF x >= 100 THEN "S"
    ELSE IF x >= 97 THEN "A+"
    ELSE IF x >= 94 THEN "A"
    ELSE IF x >= 90 THEN "A-"
    ELSE IF x >= 87 THEN "B+"
    ELSE IF x >= 84 THEN "B"
    ELSE IF x >= 80 THEN "B-"
    ELSE IF x >= 77 THEN "C+"
    ELSE IF x >= 74 THEN "C"
    ELSE IF x >= 70 THEN "C-"
    ELSE IF x >= 67 THEN "D+"
    ELSE IF x >= 64 THEN "D"
    ELSE IF x >= 60 THEN "D-"
    ELSE "F"

Summary(p, t, r) == <<"You got P/T correct. Half credit for R wrong-octave guesses.", p, t, r>>
FinalScore(s, g) == <<"Your final score", s, g>>

\* main, after the trial loop
Report ==
    /\ pc = "trial"
    /\ trial = invocation.test_count
    /\ \E o \in ScoreOutcomes(perfect_count, right_count, invocation.test_count) :
        IF o.panics
        THEN /\ Panic
             /\ out' = <<Summary(perfect_count, invocation.test_count, right_count)>>
             /\ UNCHANGED <<score, grade>>
        ELSE /\ score' = o.score
             /\ grade' = Grade(o.score)
             /\ out' = <<Summary(perfect_count, invocation.test_count, right_count),
                         FinalScore(score', grade')>>
             /\ pc' = "done"
             /\ exit_code' = 0
    /\ guess' = "None"
    /\ UNCHANGED <<invocation, play_ok, octaves, min_note, max_note,
                   perfect_count, right_count, trial, note, rem_guesses,
                   classified, buf, read>>

Next ==
    \/ Setup
    \/ StartTrial
    \/ ReadError
    \/ GuessClassified
    \/ GuessReplay
    \/ GuessHint
    \/ Report

Spec == Init /\ [][Next]_vars

-----------------------------------------------------------------------------
(* The session with an input that never ends: every read returns a whole   *)
(* line, the playback utility works, each step of main is eventually taken *)
(* and lines that match the pattern keep arriving.                         *)

\* the reads that return a line with its newline
WholeLines(raws) == { r \in raws : Len(r) > 0 /\ r[Len(r)] = "\n" }

InitLive == Init /\ play_ok

GuessClassifiedLive == GuessClassifiedOn(WholeLines(MatchingInputs))
GuessReplayLive == GuessReplayOn(WholeLines(ReplayInputs))
GuessHintLive == GuessHintOn(WholeLines(OtherInputs))

NextLive ==
    \/ Setup
    \/ StartTrial
    \/ GuessClassifiedLive
    \/ GuessReplayLive
    \/ GuessHintLive
    \/ Report

\* where main is: each of the four steps below changes it
position == <<pc, trial, classified>>

SpecLive ==
    /\ InitLive
    /\ [][NextLive]_vars
    /\ WF_position(Setup)
    /\ WF_position(StartTrial)
    /\ WF_position(Report)
    /\ SF_position(GuessClassifiedLive)

-----------------------------------------------------------------------------
(* The report on its own: the program at the end of the trial loop, for    *)
(* more trials than the whole program is run with above.                   *)

MaxReportTests == 12
PercentTests == 100
\* the least test_count whose all-Perfect tally overflows the multiplication
OverflowTests == 2147483647 \div 100 + 1

MaxNearPerfectTests == 200
MaxMisses == 3

\* the tallies of sessions in which at most MaxMisses trials were not Perfect
NearPerfectTallies ==
    UNION { { <<t, t - k, r>> : r \in 0..k } :
            <<t, k>> \in { y \in (1..MaxNearPerfectTests) \X (0..MaxMisses) :
                           y[2] <= y[1] } }

\* <<test_count, perfect_count, right_count>> at the end of the loop
ReportTallies ==
    { <<t, p, r>> \in ((0..MaxReportTests) \cup {PercentTests})
                      \X (0..PercentTests) \X (0..PercentTests) : p + r <= t }
    \cup { <<t, p, r>> \in {OverflowTests - 1, OverflowTests}
                           \X {0, OverflowTests - 2, OverflowTests - 1, OverflowTests}
                           \X {0, 1} : p + r <= t }
    \cup NearPerfectTallies

\* The last trial of a session with these tallies ended with a Perfect guess,
\* a WrongOctave guess or the last Wrong guess: one that the tallies allow.
InitReport ==
    \E y \in ReportTallies :
        LET t == y[1]  p == y[2]  r == y[3]
            last == IF t = 0 THEN "None" ELSE IF p > 0 THEN "Perfect"
                    ELSE IF r > 0 THEN "WrongOctave" ELSE "Wrong"
        IN
        /\ invocation = [octaves |-> 1, test_count |-> t, attempt_limit |-> 1]
        /\ play_ok = TRUE
        /\ pc = "trial"
        /\ octaves = 1 /\ min_note = MinNote(1) /\ max_note = MaxNote(1)
        /\ perfect_count = p /\ right_count = r
        /\ trial = t
        /\ note = IF t = 0 THEN 0 ELSE MIDDLE_C
        /\ rem_guesses = 0
        /\ classified = IF t = 0 THEN 0 ELSE 1
        /\ guess = last
        /\ read = IF t = 0 THEN "none" ELSE "line"
        /\ buf = CASE last = "None" -> <<>>
                   [] last = "Perfect" -> <<"C","4">>
                   [] last = "WrongOctave" -> <<"C","3">>
                   [] last = "Wrong" -> <<"D","3">>
        /\ out = CASE last = "None" ->
                        << <<"Lowest note we'll play", full_note_name(MinNote(1))>>,
                           <<"Highest note we'll play", full_note_name(MaxNote(1))>> >>
                   [] last = "Perfect" -> <<Prompt, Correct>>
                   [] last = "WrongOctave" ->
                        <<Prompt, RightNoteWrongOctave, TheAnswerWas(full_note_name(MIDDLE_C))>>
                   [] last = "Wrong" ->
                        <<Prompt, OutOfGuesses, TheNoteWas(full_note_name(MIDDLE_C))>>
        /\ score = 0 /\ grade = "" /\ exit_code = -1

NextReport == Report

SpecReport == InitReport /\ [][NextReport]_vars

-----------------------------------------------------------------------------
(* guess_note on its own: the program at the first prompt of a trial, for  *)
(* every note of every range and many more lines than above.               *)

Letters == {"A", "B", "C", "D", "E", "F", "G", "H", "c"}
Digits == {"1", "2", "3", "4", "5", "6", "7"}

\* what may stand before the octave digit, and in its place
TextHeads ==
    {<<>>, <<"#">>, <<"?">>, <<" ">>, <<"D", "b">>} \cup { <<l>> : l \in Letters }
    \cup { <<l, "#">> : l \in Letters }
TextTails ==
    {<<>>, <<"4", "4">>, <<"4", " ">>, <<"4", "\r">>} \cup { <<d>> : d \in Digits }

AllTexts == { h \o t : h \in TextHeads, t \in TextTails }

\* read_line on a terminated line of AllTexts, and at the end of the input
AllRawInputs == { t \o <<"\n">> : t \in AllTexts } \cup {<<>>}

AllMatchingInputs == { r \in AllRawInputs : IsMatch(StripNewlines(r)) }
AllReplayInputs ==
    { r \in AllRawInputs \ AllMatchingInputs : StripNewlines(r) = <<"?">> }
AllOtherInputs == AllRawInputs \ (AllMatchingInputs \cup AllReplayInputs)

\* after Setup and the StartTrial of the only trial
InitGuess ==
    \E o \in 1..5 :
        /\ invocation = [octaves |-> o, test_count |-> 1, attempt_limit |-> 1]
        /\ play_ok = TRUE
        /\ pc = "guess"
        /\ octaves = ClampOctaves(o)
        /\ min_note = MinNote(octaves) /\ max_note = MaxNote(octaves)
        /\ perfect_count = 0 /\ right_count = 0
        /\ trial = 1
        /\ note \in min_note..max_note
        /\ rem_guesses = 0 /\ classified = 0
        /\ buf = <<>> /\ read = "none" /\ guess = "None"
        /\ out = <<Separator, Played(note)>>
        /\ score = 0 /\ grade = "" /\ exit_code = -1

GuessClassifiedAll == GuessClassifiedOn(AllMatchingInputs)
GuessReplayAll == GuessReplayOn(AllReplayInputs)
GuessHintAll == GuessHintOn(AllOtherInputs)

NextGuess ==
    \/ GuessClassifiedAll
    \/ GuessReplayAll
    \/ GuessHintAll

SpecGuess == InitGuess /\ [][NextGuess]_vars

-----------------------------------------------------------------------------
(* The naming functions on their own, for every note number up to the      *)
(* highest MIDI note and one large number.                                 *)

MaxNameNote == 127
LargeNote == (Half \div 2 - 1) * Half + (Half - 1)

InitNames ==
    /\ invocation = [octaves |-> 1, test_count |-> 20, attempt_limit |-> 3]
    /\ play_ok = TRUE
    /\ pc = "names"
    /\ octaves = 0 /\ min_note = 0 /\ max_note = 0
    /\ perfect_count = 0 /\ right_count = 0
    /\ trial = 0
    /\ note \in (0..MaxNameNote) \cup {LargeNote}
    /\ rem_guesses = 0 /\ classified = 0
    /\ buf = <<>> /\ read = "none" /\ guess = "None"
    /\ out = <<>>
    /\ score = 0 /\ grade = "" /\ exit_code = -1

\* full_note_name(note) and note_name(note); out holds the two results
CallNames ==
    /\ pc = "names"
    /\ \E o \in FullNoteNameOutcomes(note) :
        IF o.panics
        THEN Panic /\ out' = <<>>
        ELSE /\ out' = <<o.name, note_name(note)>>
             /\ pc' = "named"
             /\ exit_code' = exit_code
    /\ UNCHANGED <<invocation, play_ok, octaves, min_note, max_note,
                   perfect_count, right_count, trial, note, rem_guesses,
                   classified, buf, read, guess, score, grade>>

NextNames == CallNames

SpecNames == InitNames /\ [][NextNames]_vars

-----------------------------------------------------------------------------
(* Properties *)

\* C1: when read_line hits the end of the input (zero bytes read) or fails,
\* the program has terminated with exit code 0: no prompt, attempt or trial
\* follows.  (Fails: only Err exits; at the end of the input buf is empty, the
\* hint is printed and the prompt repeats.)
C1_EndOfInputExits ==
    read \in {"eof", "err"} => (pc = "exit" /\ exit_code = 0)

\* C2: middle C (note 60) is labelled C3: the full name of target note 61 is
\* "C#3", and against it "C#3" is Perfect, "C#5" is WrongOctave and "D3" is
\* Wrong.  (Fails: note / 12 - 1 names note 61 "C#4".)
C2_MiddleCIsC3 ==
    (trial > 0 /\ note = MIDDLE_C + 1 /\ guess # "None") =>
        /\ full_note_name(note) = <<"C","#","3">>
        /\ buf = <<"C","#","3">> => guess = "Perfect"
        /\ buf = <<"C","#","5">> => guess = "WrongOctave"
        /\ buf = <<"D","3">> => guess = "Wrong"

\* C3: a line that is "?" or that matches neither "?" nor the pattern leaves
\* the attempts, the tallies and the target note as they are and leads to a new
\* prompt; "?" plays the same note again, anything else prints the hint; only
\* a line that matches the pattern consumes an attempt.
C3_OnlyGuessesConsumeAttempts ==
    [][ /\ (pc = "guess" /\ read' = "line" /\ ~IsMatch(buf')) =>
            /\ UNCHANGED <<rem_guesses, classified, perfect_count, right_count,
                           note, trial>>
            /\ pc' = "guess"
            /\ out' = IF buf' = <<"?">> THEN <<Prompt, Played(note)>>
                      ELSE <<Prompt, Hint>>
        /\ (pc = "guess" /\ (rem_guesses' # rem_guesses \/ classified' # classified
                             \/ pc' = "trial")) =>
            (read' = "line" /\ IsMatch(buf') /\ classified' = classified + 1)
      ]_vars

\* a replay after one Wrong guess: the attempt count is still that one guess
C3_Witness ==
    /\ pc = "guess" /\ read = "line" /\ buf = <<"?">>
    /\ out = <<Prompt, Played(note)>>
    /\ classified = 1 /\ rem_guesses = invocation.attempt_limit - 2

\* C4: after a Wrong guess with r attempts remaining: r > 1 prints the count,
\* r = 1 prints the last-guess notice, r = 0 prints "Out of guesses" and the
\* full note name and the trial prompts no more; with attempt_limit = 1 the
\* first Wrong guess ends the trial; no trial classifies more than
\* attempt_limit guesses.
C4_WrongGuessFeedback ==
    LET r == invocation.attempt_limit - classified IN
    /\ classified <= invocation.attempt_limit
    /\ pc = "guess" => classified < invocation.attempt_limit
    /\ guess = "Wrong" =>
        /\ r > 1 => (out = <<Prompt, TryAgain(r)>> /\ pc = "guess")
        /\ r = 1 => (out = <<Prompt, LastGuess>> /\ pc = "guess")
        /\ r = 0 => /\ out = <<Prompt, OutOfGuesses, TheNoteWas(full_note_name(note))>>
                    /\ pc = "trial"
        /\ invocation.attempt_limit = 1 => (classified = 1 /\ pc = "trial")

\* the third Wrong guess of three: out of guesses
C4_Witness ==
    /\ invocation.attempt_limit = 3 /\ classified = 3 /\ guess = "Wrong"
    /\ out = <<Prompt, OutOfGuesses, TheNoteWas(full_note_name(note))>>
    /\ pc = "trial"

\* the exact percentage (perfect_count + right_count / 2) * 100 / test_count,
\* rounded to the nearest integer, halves up; written so that no intermediate
\* value leaves the range of the model's integers
RoundedPercentage(p, r, t) ==
    LET n == 2 * p + r
        a == n \div t
        b == n % t
        c == (50 * b) \div t
        d == (50 * b) % t
    IN  50 * a + c + (IF 2 * d >= t THEN 1 ELSE 0)

\* C5: for every test_count >= 1 and tallies with perfect_count + right_count
\* <= test_count, the reported score is the exact percentage rounded to the
\* nearest integer, halves up.  (Fails where the u32 multiplication overflows.)
C5_ScoreIsRoundedPercentage ==
    (/\ pc \in {"done", "panic"}
     /\ invocation.test_count >= 1
     /\ perfect_count + right_count <= invocation.test_count) =>
        /\ pc = "done"
        /\ score = RoundedPercentage(perfect_count, right_count, invocation.test_count)

GradeTable ==
    << <<100, "S">>, <<97, "A+">>, <<94, "A">>, <<90, "A-">>, <<87, "B+">>,
       <<84, "B">>, <<80, "B-">>, <<77, "C+">>, <<74, "C">>, <<70, "C-">>,
       <<67, "D+">>, <<64, "D">>, <<60, "D-">> >>

\* the grade of the highest threshold that s reaches, F when it reaches none
TableGrade(s) ==
    LET reached == { i \in 1..Len(GradeTable) : s >= GradeTable[i][1] } IN
    IF reached = {} THEN "F"
    ELSE GradeTable[CHOOSE i \in reached :
                        \A j \in reached : GradeTable[j][1] <= GradeTable[i][1]][2]

GradesAscending ==
    <<"F", "D-", "D", "D+", "C-", "C", "C+", "B-", "B", "B+", "A-", "A", "A+", "S">>

GradeRank(g) == CHOOSE i \in 1..Len(GradesAscending) : GradesAscending[i] = g

\* C6: the grade is the grade of the highest threshold the score reaches in
\* the table, F below 60; every score in 0..100 gets one grade, and a higher
\* score never gets a lower grade.
C6_GradeByTable ==
    pc = "done" =>
        /\ grade = TableGrade(score)
        /\ \A s \in 0..100 :
            /\ \E i \in 1..Len(GradesAscending) : GradesAscending[i] = Grade(s)
            /\ s <= score => GradeRank(Grade(s)) <= GradeRank(grade)
            /\ s >= score => GradeRank(Grade(s)) >= GradeRank(grade)

C6_Witness ==
    pc = "done" /\ invocation.test_count = PercentTests /\ score = 97 /\ grade = "A+"

\* C7 as stated: 8 Perfect and 2 WrongOctave of 10 score 90, and a score of
\* exactly 90 is reported with the grade B-.
C7_Score90IsBMinus ==
    /\ (pc = "done" /\ invocation.test_count = 10 /\ perfect_count = 8
        /\ right_count = 2) => score = 90
    /\ (pc = "done" /\ score = 90) => grade = "B-"

\* C7 as amended: 8 Perfect and 2 WrongOctave of 10 score 90, and a score of
\* exactly 90 is reported with the grade A-.
C7_Score90IsAMinus ==
    /\ (pc = "done" /\ invocation.test_count = 10 /\ perfect_count = 8
        /\ right_count = 2) => score = 90
    /\ (pc = "done" /\ score = 90) => grade = "A-"

C7_Witness ==
    /\ pc = "done" /\ invocation.test_count = 10 /\ perfect_count = 8
    /\ right_count = 2 /\ score = 90 /\ grade = "A-"

\* C8: octaves is the -o value clamped to [1,5]; min_note = 60 - 12*(octaves/2)
\* and max_note = 60 + 12*((octaves+1)/2), both a multiple of 12 away from 60;
\* octaves 1 gives 60..72 and octaves 2 gives 48..72; every note drawn lies in
\* min_note..max_note.
C8_RangeFromOctaves ==
    pc # "start" =>
        /\ octaves \in 1..5
        /\ octaves = IF invocation.octaves < 1 THEN 1
                     ELSE IF invocation.octaves > 5 THEN 5
                     ELSE invocation.octaves
        /\ min_note = 60 - 12 * (octaves \div 2)
        /\ max_note = 60 + 12 * ((octaves + 1) \div 2)
        /\ (60 - min_note) % 12 = 0 /\ (max_note - 60) % 12 = 0
        /\ octaves = 1 => (min_note = 60 /\ max_note = 72)
        /\ octaves = 2 => (min_note = 48 /\ max_note = 72)
        /\ trial > 0 => (min_note <= note /\ note <= max_note)

\* -o 6 is clamped to 5, and the highest note of that range is drawn
C8_Witness ==
    /\ pc = "guess" /\ invocation.octaves = 6 /\ octaves = 5
    /\ trial = 1 /\ note = max_note

\* C9 as stated: for octaves = 5 the range is 0..84.
C9_Octaves5Is0To84 ==
    (pc # "start" /\ octaves = 5) => (min_note = 0 /\ max_note = 84)

\* C9 as amended: for octaves = 5 the range is min_note = 36, max_note = 96.
C9_Octaves5Is36To96 ==
    (pc # "start" /\ octaves = 5) => (min_note = 36 /\ max_note = 96)

C9_Witness ==
    /\ pc = "guess" /\ invocation.octaves = 5 /\ octaves = 5
    /\ min_note = 36 /\ max_note = 96 /\ note = min_note

\* the octave number at the end of a note's full name
OctaveText(n) ==
    SubSeq(full_note_name(n), Len(note_name(n)) + 1, Len(full_note_name(n)))

\* C10: with octaves = 1 every note drawn has the octave number of middle C
\* in its full name.  (Fails: the range 60..72 includes note 72.)
C10_MiddleOctaveOnly ==
    (octaves = 1 /\ trial > 0) => OctaveText(note) = OctaveText(MIDDLE_C)

NoteNameSet == { NOTE_NAMES[i] : i \in 1..Len(NOTE_NAMES) }

\* the lines of the pattern's language, listed: an optional note name and one
\* octave digit from 2 to 6
AcceptedLines ==
    { h \o <<d>> : h \in {<<>>} \cup NoteNameSet, d \in {"2", "3", "4", "5", "6"} }

\* C11: a line is taken as a guess exactly when it matches the pattern: "C#4"
\* is, while "B#4", "H4", "C" and "C7" are not and only get the usage hint;
\* "?" is the replay command and is never classified.
C11_GrammarAcceptance ==
    read = "line" =>
        /\ (guess # "None") <=> (buf \in AcceptedLines)
        /\ (guess = "None" /\ buf # <<"?">>) =>
                (out = <<Prompt, Hint>> /\ pc = "guess" /\ classified = 0)
        /\ buf = <<"C", "#", "4">> => guess # "None"
        /\ buf \in { <<"B", "#", "4">>, <<"H", "4">>, <<"C">>, <<"C", "7">> } =>
                (guess = "None" /\ out = <<Prompt, Hint>>)
        /\ buf = <<"?">> =>
                (guess = "None" /\ out = <<Prompt, Played(note)>> /\ pc = "guess"
                 /\ classified = 0)

C11_Witness ==
    /\ read = "line" /\ buf = <<"B", "#", "4">> /\ guess = "None"
    /\ out = <<Prompt, Hint>> /\ pc = "guess"

\* C12: when the playback utility can be launched, a run never ends with a
\* nonzero exit code, whatever test_count >= 0 and attempt_limit >= 0 are.
\* (Fails: with test_count = 0 the score divides by zero and the run panics.)
C12_AcceptedRunsExitZero ==
    play_ok => (pc # "panic" /\ exit_code \in {-1, 0})

DigitValue(c) == CHOOSE v \in 0..9 : DigitChars[v + 1] = c

\* the number a text of decimal digits denotes
RECURSIVE ParseDecimal(_)
ParseDecimal(t) ==
    IF Len(t) = 0 THEN 0
    ELSE 10 * ParseDecimal(SubSeq(t, 1, Len(t) - 1)) + DigitValue(t[Len(t)])

IsDecimalText(t) ==
    Len(t) >= 1 /\ \A i \in 1..Len(t) : \E v \in 0..9 : DigitChars[v + 1] = t[i]

\* out = <<full name, pitch-class name>>: the full name is the pitch-class
\* name followed by the decimal text of the octave number k
NamesAgree(k) ==
    LET full == out[1]
        name == out[2]
        rest == SubSeq(full, Len(name) + 1, Len(full))
    IN  /\ name \in NoteNameSet
        /\ Len(full) > Len(name)
        /\ SubSeq(full, 1, Len(name)) = name
        /\ k >= 0 /\ IsDecimalText(rest) /\ ParseDecimal(rest) = k

\* C13 as stated: for every note number n >= 0, n < 12 included, both names
\* are defined and the same on every build, and the full name is the
\* pitch-class name followed by the octave number n/12 - 1.
C13_NamesForEveryNote ==
    pc \in {"named", "panic"} =>
        /\ pc = "named"
        /\ Cardinality(FullNoteNameOutcomes(note)) = 1
        /\ NamesAgree(note \div 12 - 1)

\* C13 as amended: the same for every note number n >= 12.
C13_NamesFromNote12 ==
    (pc \in {"named", "panic"} /\ note >= 12) =>
        /\ pc = "named"
        /\ Cardinality(FullNoteNameOutcomes(note)) = 1
        /\ NamesAgree(note \div 12 - 1)

C13_Witness ==
    pc = "named" /\ note = 127 /\ out = << <<"G", "9">>, <<"G">> >>

\* the trials that have run to their end: all that began, but the one in
\* progress (or cut short by an exit or by a playback that could not start)
CompletedTrials ==
    IF \/ pc \in {"guess", "exit"}
       \/ (pc = "panic" /\ out = <<Separator>>)
    THEN trial - 1
    ELSE trial

\* what one step may do to the tallies
TallyStep ==
    LET dp == perfect_count' - perfect_count
        dr == right_count' - right_count
    IN  /\ <<dp, dr>> \in {<<0, 0>>, <<1, 0>>, <<0, 1>>}
        /\ (dp + dr > 0) => (pc = "guess" /\ pc' = "trial")
        /\ (pc = "guess" /\ guess' = "Perfect") =>
                (dp = 1 /\ dr = 0 /\ pc' = "trial")
        /\ (pc = "guess" /\ guess' = "WrongOctave") =>
                (dp = 0 /\ dr = 1 /\ pc' = "trial")
        /\ (pc = "guess" /\ pc' = "trial") =>
                \/ guess' \in {"Perfect", "WrongOctave"}
                \/ /\ guess' = "Wrong" /\ dp = 0 /\ dr = 0
                   /\ classified' = invocation.attempt_limit
        /\ (pc = "trial" /\ pc' = "trial" /\ trial' = trial + 1) =>
                (invocation.attempt_limit = 0 /\ dp = 0 /\ dr = 0)

\* C14: each completed trial changes the tallies in exactly one of three ways
\* (perfect_count + 1, right_count + 1, nothing when the attempts ran out); a
\* Perfect or WrongOctave guess ends the trial at once; so perfect_count +
\* right_count <= completed trials <= test_count in every reachable state.
C14_OneOutcomePerTrial ==
    /\ [](/\ perfect_count + right_count <= CompletedTrials
          /\ CompletedTrials <= trial
          /\ trial <= invocation.test_count)
    /\ [][TallyStep]_vars

\* two trials, one Perfect and one WrongOctave at the first of three attempts
C14_Witness ==
    /\ pc = "trial" /\ trial = 2 /\ perfect_count = 1 /\ right_count = 1
    /\ guess = "WrongOctave" /\ classified = 1 /\ invocation.attempt_limit = 3

\* the line is the pitch-class name of note n followed by one more character
NamesPitchOf(b, n) ==
    Len(b) >= 1 /\ b = note_name(n) \o <<b[Len(b)]>>

\* C15: for every target note of the playable range and every line that
\* matches the pattern, the outcome is Perfect iff the line is the target's
\* full name, WrongOctave iff it is not Perfect and the line without its last
\* character is the target's pitch-class name, and Wrong otherwise.
C15_ThreeOutcomes ==
    guess # "None" =>
        LET perfect == buf = full_note_name(note)
            octave  == ~perfect /\ NamesPitchOf(buf, note)
        IN  /\ guess \in {"Perfect", "WrongOctave", "Wrong"}
            /\ (guess = "Perfect") <=> perfect
            /\ (guess = "WrongOctave") <=> octave
            /\ (guess = "Wrong") <=> (~perfect /\ ~octave)

C15_Witness ==
    /\ guess = "WrongOctave" /\ note = 85 /\ buf = <<"C", "#", "2">>
    /\ full_note_name(note) = <<"C", "#", "6">>

\* C16: for every octave setting and every note drawn, the note's full name
\* matches the pattern, so that some line is classified Perfect.  (Fails: with
\* octaves = 5 the highest note, 96, is named "C7", and the pattern ends at 6.)
C16_FullNameIsAGuess ==
    (trial > 0 /\ octaves \in 1..5) =>
        /\ IsMatch(full_note_name(note))
        /\ Classify(full_note_name(note), note_name(note), full_note_name(note))
               = "Perfect"

\* C17: when the input never ends, lines that match the pattern keep arriving
\* and every playback returns, the session never begins more than test_count
\* trials nor classifies more than attempt_limit guesses in one of them (so at
\* most test_count * attempt_limit in all), and it eventually prints the final
\* report after exactly test_count trials, once (the report is the last step).
\* (Fails: with test_count = 0 the score division panics before the report.)
C17_SessionReportsOnce ==
    /\ [](/\ trial <= invocation.test_count
          /\ classified <= invocation.attempt_limit)
    /\ <>[](/\ pc = "done"
            /\ trial = invocation.test_count
            /\ exit_code = 0)

\* the line without its last character, and the last character of a text
PitchPart(b) == SubSeq(b, 1, Len(b) - 1)
LastChar(b) == b[Len(b)]

\* C18 as stated: a guess that matches the pattern is classified Wrong only
\* when neither its pitch class nor its octave digit is the target note's.
C18_WrongOnlyIfNeitherMatches ==
    guess = "Wrong" =>
        /\ PitchPart(buf) # note_name(note)
        /\ LastChar(buf) # LastChar(full_note_name(note))

\* C18, amended: a guess that matches the pattern is classified Wrong exactly
\* when its pitch class is not the target note's, whatever its octave digit.
C18_WrongIffPitchDiffers ==
    guess # "None" =>
        ((guess = "Wrong") <=> (PitchPart(buf) # note_name(note)))

\* a Wrong guess whose octave digit is the target's
C18_Witness ==
    /\ guess = "Wrong"
    /\ note = 49
    /\ buf = <<"D", "3">>
    /\ LastChar(buf) = LastChar(full_note_name(note))

\* C19: every line that consumes an attempt names a pitch class followed by
\* an octave digit; a line of only an octave digit gets the hint and costs
\* nothing.  (Fails: the pitch-class group of the pattern is optional, so the
\* line "4" is classified, as Wrong, and consumes an attempt.)
C19_AttemptsNameAPitchClass ==
    guess # "None" =>
        /\ Len(buf) >= 2
        /\ PitchPart(buf) \in NoteNameSet
        /\ \E i \in 1..Len(DigitChars) : LastChar(buf) = DigitChars[i]

\* C20 as stated: for every test_count >= 1 the final score lies in 0..100,
\* and a score of 100 is reported only if every trial was answered Perfect.
C20_Score100OnlyIfAllPerfect ==
    (pc = "done" /\ invocation.test_count >= 1) =>
        /\ score \in 0..100
        /\ score = 100 => perfect_count = invocation.test_count

\* C20, amended: for every test_count >= 1 the final score lies in 0..100,
\* and a score of 100 is reported only if at most one trial in a hundred was
\* not Perfect (test_count - perfect_count <= test_count / 100, rounded
\* down): for test_count <= 99 only if every trial was answered Perfect.
C20_Score100OnlyIfNearPerfect ==
    (pc = "done" /\ invocation.test_count >= 1) =>
        /\ score \in 0..100
        /\ score = 100 =>
              invocation.test_count - perfect_count
                  <= invocation.test_count \div 100
        /\ (score = 100 /\ invocation.test_count <= 99) =>
              perfect_count = invocation.test_count

\* a report of 100 for a session with a trial that was not Perfect
C20_Witness ==
    /\ pc = "done"
    /\ score = 100 /\ grade = "S"
    /\ invocation.test_count = 100
    /\ perfect_count = 99 /\ right_count = 1

====
